---- MODULE Spec2Model ----
(***************************************************************************)
(* NeuroTask: the priority-scoring engine (ai_engine.py), the task router   *)
(* that persists its scores (routers/tasks.py), the dashboard counts        *)
(* (routers/analytics.py) and the websocket registry (main.py).             *)
(*                                                                         *)
(* Representation                                                          *)
(*   instants         integers, in minutes since the epoch of the run      *)
(*   Optional[x]      a set with at most one element: {} is None           *)
(*   estimated_hours  integers, in tenths of an hour                       *)
(*   scores           integers, in tenths of a point (880 is 88.0), which  *)
(*                    is exactly what round(x, 1) can return               *)
(***************************************************************************)
EXTENDS Integers, FiniteSets, Sequences, TLC

VARIABLES
    now,          \* datetime.now(timezone.utc), in minutes
    score_in,     \* the seven arguments of one calculate_ai_score call
    score_out,    \* its return value: {} while the call is pending
    prod_in,      \* the four arguments of one generate_productivity_score call
    prod_out,     \* its outcome: {} while the call is pending
    tasks,        \* the tasks table: id -> row, for the ids in use
    last_request, \* id -> instant of the latest request that wrote the task
    sugg_in,      \* the list handed to get_ai_suggestion
    sugg_out,     \* the list it returned: {} while the call is pending
    reply,        \* the answer to the latest request a router served
    sessions,     \* the requests in progress, each in a database session of its own
    active,       \* ConnectionManager.active: user_id -> list of websockets
    handlers      \* websocket -> where its websocket_endpoint call stands

(* The variables of the scoring engine and of the tasks table. *)
core == <<now, score_in, score_out, prod_in, prod_out, tasks, last_request>>
(* The variables of the list helper, the answers, the sessions and the sockets. *)
others == <<sugg_in, sugg_out, reply, sessions, active, handlers>>
vars == <<core, others>>

----------------------------------------------------------------------------
(* Bounds of the model. *)

MaxSubtasks == 10     \* largest subtask_count handed to calculate_ai_score
MaxComments == 10     \* largest comment_count handed to calculate_ai_score
MaxTotal == 5         \* largest total_tasks handed to generate_productivity_score
MaxAvgDays == 32      \* largest avg_completion_time_days, in whole days
MaxTasks == 1         \* rows of the tasks table
MaxRows == 1          \* subtasks, and comments, of one task
MaxTicks == 1         \* days the clock advances
MaxListed == 4        \* entries of the list handed to get_ai_suggestion
MaxSessions == 2      \* requests in progress at once, each in its own session
MaxSockets == 3       \* websockets that connect in a run
MaxProjectTasks == 2  \* rows of the tasks table when lists of it are asked for

(* Units: an hour and a day in minutes, a minute in seconds, a unit in tenths. *)
Hours(n) == n * 60
Days(n) == n * 24 * 60
Seconds(minutes) == minutes * 60
Tenths(n) == n * 10

Max(a, b) == IF a >= b THEN a ELSE b
Min(a, b) == IF a <= b THEN a ELSE b

(* dict.get(key, default) *)
DictGet(d, key, default) == IF key \in DOMAIN d THEN d[key] ELSE default

(* round(num/den, 1) for num/den >= 0, in tenths: Python rounds to the       *)
(* nearest tenth and, on an exact tie, to the even one.                     *)
Round1(num, den) ==
    LET scaled == Tenths(num)
        q == scaled \div den
        r == scaled % den
    IN  IF 2 * r < den THEN q
        ELSE IF 2 * r > den THEN q + 1
        ELSE IF q % 2 = 0 THEN q ELSE q + 1

----------------------------------------------------------------------------
(* ai_engine.py *)

(* A mistyped weight table: critical weighs 9 instead of 90. *)
PRIORITY_WEIGHTS_Typo ==
    [p \in {"low", "medium", "high", "critical"} |->
        CASE p = "low" -> 10 [] p = "medium" -> 30 [] p = "high" -> 60 [] p = "critical" -> 9]

PRIORITY_WEIGHTS ==
    [p \in {"low", "medium", "high", "critical"} |->
        CASE p = "low" -> 10 [] p = "medium" -> 30 [] p = "high" -> 60 [] p = "critical" -> 90]

STATUS_PENALTY ==
    [s \in {"done", "review", "in_progress", "todo"} |->
        CASE s = "done" -> -100 [] s = "review" -> -20 [] s = "in_progress" -> 0 [] s = "todo" -> 0]

SECONDS_PER_DAY == 86400

(* The brackets tested by independent ifs instead of one if/elif chain. *)
(* The brackets with a task past its due date given up: no bonus at all. *)
DueBonus_OverdueLapsed(due_date, at) ==
    IF due_date = {} THEN 0
    ELSE LET due == CHOOSE d \in due_date : TRUE
             seconds_left == Seconds(due - at)
         IN  IF seconds_left < 0 THEN 0
             ELSE IF seconds_left < 1 * 86400 THEN 30
             ELSE IF seconds_left < 3 * 86400 THEN 20
             ELSE IF seconds_left < 7 * 86400 THEN 10
             ELSE IF seconds_left < 14 * 86400 THEN 5
             ELSE 0

DueBonus_Cumulative(due_date, at) ==
    IF due_date = {} THEN 0
    ELSE LET due == CHOOSE d \in due_date : TRUE
             seconds_left == Seconds(due - at)
         IN  (IF seconds_left < 0 THEN 40 ELSE 0)
             + (IF seconds_left < 1 * 86400 THEN 30 ELSE 0)
             + (IF seconds_left < 3 * 86400 THEN 20 ELSE 0)
             + (IF seconds_left < 7 * 86400 THEN 10 ELSE 0)
             + (IF seconds_left < 14 * 86400 THEN 5 ELSE 0)

(* Lines 24-39: the due-date urgency added to score. days_left is            *)
(* total_seconds() / 86400, so days_left < k is seconds < k * 86400.         *)
DueBonus(due_date, at) ==
    IF due_date = {} THEN 0
    ELSE LET due == CHOOSE d \in due_date : TRUE
             seconds_left == Seconds(due - at)
         IN  IF seconds_left < 0 THEN 40
             ELSE IF seconds_left < 1 * SECONDS_PER_DAY THEN 30
             ELSE IF seconds_left < 3 * SECONDS_PER_DAY THEN 20
             ELSE IF seconds_left < 7 * SECONDS_PER_DAY THEN 10
             ELSE IF seconds_left < 14 * SECONDS_PER_DAY THEN 5
             ELSE 0

(* The thresholds compared with >= instead of >. *)
ComplexityBonus_Inclusive(estimated_hours) ==
    IF estimated_hours >= Tenths(8) THEN 10
    ELSE IF estimated_hours >= Tenths(4) THEN 5
    ELSE 0

(* Lines 41-45: the complexity bonus; estimated_hours is in tenths. *)
ComplexityBonus(estimated_hours) ==
    IF estimated_hours > Tenths(8) THEN 10
    ELSE IF estimated_hours > Tenths(4) THEN 5
    ELSE 0

(* The engagement bonus without its two caps. *)
EngagementBonus_Uncapped(has_description, subtask_count, comment_count) ==
    (IF has_description THEN 5 ELSE 0) + subtask_count * 2 + comment_count

(* Lines 47-53: the engagement bonus. *)
EngagementBonus(has_description, subtask_count, comment_count) ==
    (IF has_description THEN 5 ELSE 0)
    + (IF subtask_count > 0 THEN Min(subtask_count * 2, 10) ELSE 0)
    + (IF comment_count > 0 THEN Min(comment_count, 5) ELSE 0)

(* The value of the local variable score at line 56, before the clamp. *)
(* The sum with a lookup that gives an unlisted priority or status nothing   *)
(* of its own: 0 for the one, the review penalty for the other.             *)
ScoreSum_OtherDefaults(priority, status, due_date, estimated_hours, has_description, subtask_count, comment_count, at) ==
    DictGet(PRIORITY_WEIGHTS, priority, 0)
    + DueBonus(due_date, at)
    + ComplexityBonus(estimated_hours)
    + EngagementBonus(has_description, subtask_count, comment_count)
    + DictGet(STATUS_PENALTY, status, -20)

ScoreSum(priority, status, due_date, estimated_hours, has_description, subtask_count, comment_count, at) ==
    DictGet(PRIORITY_WEIGHTS, priority, 30)
    + DueBonus(due_date, at)
    + ComplexityBonus(estimated_hours)
    + EngagementBonus(has_description, subtask_count, comment_count)
    + DictGet(STATUS_PENALTY, status, 0)

(* The clamp without its upper limit. *)
ClampRound_NoCeiling(score) == Round1(Max(score, 0), 1)

(* Line 58: round(min(max(score, 0), 100), 1), in tenths. *)
ClampRound(score) == Round1(Min(Max(score, 0), 100), 1)

(* calculate_ai_score, called at the instant `at`. *)
calculate_ai_score(priority, status, due_date, estimated_hours, has_description, subtask_count, comment_count, at) ==
    ClampRound(ScoreSum(priority, status, due_date, estimated_hours,
                        has_description, subtask_count, comment_count, at))

(* generate_productivity_score returns a value or raises ZeroDivisionError; *)
(* divisors are the divisors of the divisions the call evaluated.           *)
Returned(value, divisors) == [raised |-> FALSE, value |-> value, divisors |-> divisors]
Raised(divisors) == [raised |-> TRUE, value |-> 0, divisors |-> divisors]

(* The time bonus without max(0, ...). *)
TimeBonusNum_Unfloored(avg_completion_time_days) == 30 - avg_completion_time_days

(* Line 76: max(0, 1 - avg_completion_time_days / 30), as a multiple of 1/30. *)
TimeBonusNum(avg_completion_time_days) == Max(0, 30 - avg_completion_time_days)

(* The clamp without its upper limit. *)
ProdClampRound_NoCeiling(num, den) == Round1(Max(num, 0), den)

(* Line 78: round(min(max(score, 0), 100), 1) of score = num / den, den > 0. *)
ProdClampRound(num, den) == Round1(Min(Max(num, 0), 100 * den), den)

(* Lines 74-77, once the divisors are known to be non-zero: score is        *)
(*   (completed/total * 0.8 - overdue/max(total, 1) * 0.3                    *)
(*      + max(0, 1 - avg/30) * 0.2) * 100                                    *)
(* as the fraction ProdNum / ProdDen.                                       *)
ProdDen(total_tasks) == total_tasks * Max(total_tasks, 1) * 30

ProdNum(total_tasks, completed_tasks, overdue_tasks, avg_completion_time_days) ==
    80 * completed_tasks * Max(total_tasks, 1) * 30
    - 30 * overdue_tasks * total_tasks * 30
    + 20 * TimeBonusNum(avg_completion_time_days) * total_tasks * Max(total_tasks, 1)

(* The function without its guard on total_tasks. *)
generate_productivity_score_Unguarded(total_tasks, completed_tasks, overdue_tasks, avg_completion_time_days) ==
    LET divisors == {total_tasks, Max(total_tasks, 1), 30}
    IN  IF 0 \in divisors THEN Raised(divisors)
        ELSE Returned(ProdClampRound(ProdNum(total_tasks, completed_tasks, overdue_tasks,
                                             avg_completion_time_days),
                                     ProdDen(total_tasks)),
                      divisors)

generate_productivity_score(total_tasks, completed_tasks, overdue_tasks, avg_completion_time_days) ==
    IF total_tasks = 0 THEN Returned(0, {})
    ELSE LET divisors == {total_tasks, Max(total_tasks, 1), 30}
         IN  IF 0 \in divisors THEN Raised(divisors)
             ELSE Returned(ProdClampRound(ProdNum(total_tasks, completed_tasks,
                                                  overdue_tasks, avg_completion_time_days),
                                          ProdDen(total_tasks)),
                           divisors)

----------------------------------------------------------------------------
(* One call of calculate_ai_score on arbitrary arguments. *)

Priorities == {"low", "medium", "high", "critical", "urgent"}   \* "urgent" is no key
Statuses == {"todo", "in_progress", "review", "done", "archived"} \* "archived" is no key

(* Due dates, in minutes after the instant of the call, which is 0. *)
DueOffsets ==
    {-1, 0, Hours(23), Days(1), Hours(25), Days(3), Days(5), Days(7), Days(14)}

EstimatedHours == {0, 40, 60, 80, 81}    \* tenths of an hour

ScoreInputs ==
    [priority : Priorities, status : Statuses,
     due_date : {{}} \cup {{o} : o \in DueOffsets},
     estimated_hours : EstimatedHours, has_description : BOOLEAN,
     subtask_count : 0..MaxSubtasks, comment_count : 0..MaxComments]

Score(in, at) ==
    calculate_ai_score(in.priority, in.status, in.due_date, in.estimated_hours,
                       in.has_description, in.subtask_count, in.comment_count, at)

Idle == [idle |-> TRUE]

(* Nothing listed, answered, in progress or connected. *)
OthersIdle ==
    /\ sugg_in = <<>> /\ sugg_out = {}
    /\ reply = Idle
    /\ sessions = <<>>
    /\ active = << >> /\ handlers = << >>

InitScore ==
    /\ now = 0
    /\ score_in \in ScoreInputs
    /\ score_out = {}
    /\ prod_in = Idle /\ prod_out = {}
    /\ tasks = <<>> /\ last_request = <<>>
    /\ OthersIdle

ScoreCall ==
    /\ score_out = {}
    /\ score_out' = {Score(score_in, now)}
    /\ UNCHANGED <<now, score_in, prod_in, prod_out, tasks, last_request>>

NextScore == ScoreCall /\ UNCHANGED others

SpecScore == InitScore /\ [][NextScore]_vars

----------------------------------------------------------------------------
(* One call of generate_productivity_score on arbitrary arguments; the      *)
(* completed and overdue counts may exceed total_tasks.                     *)

ProdInputs ==
    [total_tasks : 0..MaxTotal, completed_tasks : 0..(MaxTotal + 1),
     overdue_tasks : 0..(MaxTotal + 1), avg_completion_time_days : 0..MaxAvgDays]

Productivity(in) ==
    generate_productivity_score(in.total_tasks, in.completed_tasks, in.overdue_tasks,
                                in.avg_completion_time_days)

InitProd ==
    /\ now = 0
    /\ score_in = Idle /\ score_out = {}
    /\ prod_in \in ProdInputs
    /\ prod_out = {}
    /\ tasks = <<>> /\ last_request = <<>>
    /\ OthersIdle

ProdCall ==
    /\ prod_out = {}
    /\ prod_out' = {Productivity(prod_in)}
    /\ UNCHANGED <<now, score_in, score_out, prod_in, tasks, last_request>>

NextProd == ProdCall /\ UNCHANGED others

SpecProd == InitProd /\ [][NextProd]_vars

----------------------------------------------------------------------------
(* The due date of a call as minutes after the instant of the call. *)
MinutesLeft(in, at) == (CHOOSE d \in in.due_date : TRUE) - at

(* The statement of the formula: each contribution as a table of its own. *)
StatedBase(priority) ==
    CASE priority = "low" -> 10 [] priority = "medium" -> 30
      [] priority = "high" -> 60 [] priority = "critical" -> 90 [] OTHER -> 30

StatedDue(in, at) ==
    IF in.due_date = {} THEN 0
    ELSE LET m == MinutesLeft(in, at)
         IN  CASE m < 0 -> 40
               [] m >= 0 /\ m < Days(1) -> 30
               [] m >= Days(1) /\ m < Days(3) -> 20
               [] m >= Days(3) /\ m < Days(7) -> 10
               [] m >= Days(7) /\ m < Days(14) -> 5
               [] m >= Days(14) -> 0

StatedComplexity(tenths_of_hours) ==
    CASE tenths_of_hours > 80 -> 10
      [] tenths_of_hours > 40 /\ tenths_of_hours <= 80 -> 5
      [] OTHER -> 0

StatedEngagement(in) ==
    (IF in.has_description THEN 5 ELSE 0)
    + Min(2 * in.subtask_count, 10) + Min(in.comment_count, 5)

StatedStatus(status) ==
    CASE status = "done" -> -100 [] status = "review" -> -20 [] OTHER -> 0

StatedScore(in, at) ==
    LET sum == StatedBase(in.priority) + StatedDue(in, at)
               + StatedComplexity(in.estimated_hours) + StatedEngagement(in)
               + StatedStatus(in.status)
    IN  Tenths(IF sum < 0 THEN 0 ELSE IF sum > 100 THEN 100 ELSE sum)

Scenario ==
    [priority |-> "high", status |-> "todo", due_date |-> {Days(5)},
     estimated_hours |-> 60, has_description |-> TRUE,
     subtask_count |-> 3, comment_count |-> 2]

(* C1: whatever the arguments, the value calculate_ai_score returns lies in *)
(* [0, 100] (0..1000 tenths).                                               *)
C1_ScoreBounded == \A v \in score_out : 0 <= v /\ v <= Tenths(100)

(* A call whose contributions sum to more than 100 has returned 100.0. *)
C1_Witness ==
    /\ score_out = {Tenths(100)}
    /\ score_in.priority = "critical" /\ score_in.estimated_hours > 80
    /\ score_in.due_date # {} /\ MinutesLeft(score_in, now) < 0

(* C2: the returned value is the clamped sum of the five stated            *)
(* contributions, to one decimal; the scenario call returns 88.0.           *)
C2_ScoreFormula ==
    \A v \in score_out :
        /\ v = StatedScore(score_in, now)
        /\ score_in = Scenario => v = 880

C2_Witness == score_in = Scenario /\ score_out = {880}

(* C3: a call with status done returns the floor value 0.0. *)
C3_DoneScoresZero == score_in.status = "done" => \A v \in score_out : v = 0

(* The stated edges: minutes left -> bonus. *)
StatedBracketEdges ==
    [m \in {-1, 0, Hours(23), Days(1), Hours(25), Days(14)} |->
        CASE m = -1 -> 40 [] m = 0 -> 30 [] m = Hours(23) -> 30
          [] m = Days(1) -> 20 [] m = Hours(25) -> 20 [] m = Days(14) -> 0]

(* C4: with a due date, the call adds the bonus of exactly one bracket, the *)
(* first that matches: against the same call without a due date the value  *)
(* rises by that bracket's bonus alone (wherever neither value is clamped), *)
(* and the stated edges fall in the stated brackets.                        *)
C4_DueBrackets ==
    \A v \in score_out :
        score_in.due_date # {} =>
            LET undated == Score([score_in EXCEPT !.due_date = {}], now)
                rise == v - undated
                m == MinutesLeft(score_in, now)
            IN  (undated > 0 /\ v < Tenths(100)) =>
                    /\ rise = Tenths(StatedDue(score_in, now))
                    /\ m \in DOMAIN StatedBracketEdges => rise = Tenths(StatedBracketEdges[m])

(* The call of a task due exactly now, scored in the "< 1 day" bracket. *)
C4_Witness ==
    /\ score_in.due_date = {now}
    /\ score_in.priority = "medium" /\ score_in.status = "todo"
    /\ score_in.estimated_hours = 0 /\ ~score_in.has_description
    /\ score_in.subtask_count = 0 /\ score_in.comment_count = 0
    /\ score_out = {Tenths(30 + 30)}

(* The stated order of the priorities. *)
PriorityRank ==
    [p \in {"low", "medium", "high", "critical"} |->
        CASE p = "low" -> 1 [] p = "medium" -> 2 [] p = "high" -> 3 [] p = "critical" -> 4]

(* C5: with everything else fixed, the returned value does not decrease     *)
(* along low, medium, high, critical.                                       *)
C5_PriorityMonotone ==
    \A v \in score_out :
        score_in.priority \in DOMAIN PriorityRank =>
            \A q \in DOMAIN PriorityRank :
                LET other == Score([score_in EXCEPT !.priority = q], now)
                IN  /\ PriorityRank[q] >= PriorityRank[score_in.priority] => other >= v
                    /\ PriorityRank[q] <= PriorityRank[score_in.priority] => other <= v

(* A critical call that scored strictly above the same call made high. *)
C5_Witness ==
    /\ score_in.priority = "critical"
    /\ \E v \in score_out : v > Score([score_in EXCEPT !.priority = "high"], now)

(* The sum of the contributions of a call, before the clamp. *)
Sum(in, at) ==
    ScoreSum(in.priority, in.status, in.due_date, in.estimated_hours,
             in.has_description, in.subtask_count, in.comment_count, at)

(* C10: in the sum a call clamps, subtasks contribute min(2 * count, 10),   *)
(* comments min(count, 5) and a description 5, each whatever the other two  *)
(* are.                                                                     *)
C10_EngagementCaps ==
    score_out # {} =>
        LET With(d, n, c) ==
                Sum([score_in EXCEPT !.has_description = d, !.subtask_count = n,
                                     !.comment_count = c], now)
            subs == score_in.subtask_count
            coms == score_in.comment_count
        IN  /\ \A d \in BOOLEAN, c \in {0, coms} :
                   With(d, subs, c) - With(d, 0, c) = Min(2 * subs, 10)
            /\ \A d \in BOOLEAN, n \in {0, subs} :
                   With(d, n, coms) - With(d, n, 0) = Min(coms, 5)
            /\ \A n \in {0, subs}, c \in {0, coms} :
                   With(TRUE, n, c) - With(FALSE, n, c) = 5

(* A call with 10 subtasks and 10 comments, which added 10 and 5. *)
C10_Witness ==
    /\ score_in.subtask_count = 10 /\ score_in.comment_count = 10
    /\ ~score_in.has_description /\ score_in.priority = "low"
    /\ score_in.status = "todo" /\ score_in.due_date = {} /\ score_in.estimated_hours = 0
    /\ score_out = {Tenths(10 + 10 + 5)}

----------------------------------------------------------------------------
(* routers/tasks.py, served one request at a time. The activities table,   *)
(* which create_task and update_task append to and no modelled operation    *)
(* reads, is left out.                                                      *)

Users == {1, 2}
(* projects.owner_id: project 1 belongs to user 1, project 2 to user 2. *)
ProjectOwner == [p \in {1, 2} |-> p]

(* payload.x or default *)
Or(optional, default) == IF optional = {} THEN default ELSE CHOOSE x \in optional : TRUE

(* The request bodies, TaskCreate and TaskUpdate alike: a field that is     *)
(* None or left out is {}.                                                  *)
NoFields ==
    [priority |-> {}, status |-> {}, due_date |-> {}, estimated_hours |-> {},
     description |-> {}]

TaskPayloads ==
    { NoFields,
      [NoFields EXCEPT !.priority = {"critical"}, !.estimated_hours = {90}],
      [NoFields EXCEPT !.status = {"review"}, !.description = {"notes"}],
      [NoFields EXCEPT !.due_date = {Hours(12)}] }

(* Lines 17-24: does the query find a project of this id owned by the user? *)
_get_project_or_404(project_id, user_id) ==
    project_id \in DOMAIN ProjectOwner /\ ProjectOwner[project_id] = user_id

(* Lines 116-119, 134-137, 188-190, 234-236: the task of this id in the project. *)
TaskFound(project_id, task_id) ==
    task_id \in DOMAIN tasks /\ tasks[task_id].project_id = project_id

(* raise HTTPException(status_code=404): nothing is written. *)
NotFound == UNCHANGED core

(* The recalculation with the comment count read from the subtasks. *)
_recalc_score_CopyPaste(task) ==
    [task EXCEPT !.ai_score =
        calculate_ai_score(task.priority, task.status, task.due_date, task.estimated_hours,
                           task.description # "", Len(task.subtasks), Len(task.subtasks), now)]

(* Lines 27-36: the row with its ai_score recalculated now. *)
_recalc_score(task) ==
    [task EXCEPT !.ai_score =
        calculate_ai_score(task.priority, task.status, task.due_date, task.estimated_hours,
                           task.description # "", Len(task.subtasks), Len(task.comments), now)]

(* Lines 79-82: the new row, from the fields of the payload that are not  *)
(* None and the column defaults of models.py for the others.               *)
NewTask(project_id, payload) ==
    [project_id |-> project_id,
     priority |-> Or(payload.priority, "medium"),
     status |-> Or(payload.status, "todo"),
     due_date |-> payload.due_date,
     estimated_hours |-> Or(payload.estimated_hours, 0),
     description |-> Or(payload.description, ""),
     subtasks |-> <<>>, comments |-> <<>>, ai_score |-> 0]

(* Lines 86-94: the score create_task computes from the payload. *)
CreateScore(payload) ==
    calculate_ai_score(Or(payload.priority, "medium"), Or(payload.status, "todo"),
                       payload.due_date, Or(payload.estimated_hours, 0),
                       Or(payload.description, "") # "", 0, 0, now)

(* Lines 70-105 *)
create_task(current_user, project_id, payload) ==
    IF ~_get_project_or_404(project_id, current_user) THEN NotFound
    ELSE /\ tasks' = Append(tasks, [NewTask(project_id, payload) EXCEPT
                                        !.ai_score = CreateScore(payload)])
         /\ last_request' = Append(last_request, now)
         /\ UNCHANGED <<now, score_in, score_out, prod_in, prod_out>>

(* Lines 142-143: setattr for every field of the payload that is not None. *)
Patched(task, payload) ==
    [task EXCEPT !.priority = Or(payload.priority, @),
                 !.status = Or(payload.status, @),
                 !.due_date = IF payload.due_date = {} THEN @ ELSE payload.due_date,
                 !.estimated_hours = Or(payload.estimated_hours, @),
                 !.description = Or(payload.description, @)]

(* Lines 125-157 *)
update_task(current_user, project_id, task_id, payload) ==
    IF ~_get_project_or_404(project_id, current_user) \/ ~TaskFound(project_id, task_id)
    THEN NotFound
    ELSE /\ tasks' = [tasks EXCEPT ![task_id] = _recalc_score(Patched(@, payload))]
         /\ last_request' = [last_request EXCEPT ![task_id] = now]
         /\ UNCHANGED <<now, score_in, score_out, prod_in, prod_out>>

(* Lines 179-200: the subtask is committed, then the score recalculated. *)
add_subtask(current_user, project_id, task_id) ==
    IF ~_get_project_or_404(project_id, current_user) \/ ~TaskFound(project_id, task_id)
    THEN NotFound
    ELSE /\ Len(tasks[task_id].subtasks) < MaxRows
         /\ tasks' = [tasks EXCEPT ![task_id] =
                         _recalc_score([@ EXCEPT !.subtasks = Append(@, [is_done |-> FALSE])])]
         /\ last_request' = [last_request EXCEPT ![task_id] = now]
         /\ UNCHANGED <<now, score_in, score_out, prod_in, prod_out>>

(* Lines 225-250: the comment is committed, then the score recalculated. *)
add_comment(current_user, project_id, task_id) ==
    IF ~_get_project_or_404(project_id, current_user) \/ ~TaskFound(project_id, task_id)
    THEN NotFound
    ELSE /\ Len(tasks[task_id].comments) < MaxRows
         /\ tasks' = [tasks EXCEPT ![task_id] =
                         _recalc_score([@ EXCEPT !.comments =
                                           Append(@, [author_id |-> current_user])])]
         /\ last_request' = [last_request EXCEPT ![task_id] = now]
         /\ UNCHANGED <<now, score_in, score_out, prod_in, prod_out>>

(* A day passes between two requests. *)
Tick ==
    /\ now < Days(MaxTicks)
    /\ now' = now + Days(1)
    /\ UNCHANGED <<score_in, score_out, prod_in, prod_out, tasks, last_request>>

Init ==
    /\ now = 0
    /\ score_in = Idle /\ score_out = {}
    /\ prod_in = Idle /\ prod_out = {}
    /\ tasks = <<>> /\ last_request = <<>>
    /\ OthersIdle

(* A step of the engine or of the tasks table: no list call, answer,       *)
(* session or socket is involved.                                           *)
Quiet(A) == A /\ UNCHANGED others

Next ==
    \/ \E u \in Users, p \in DOMAIN ProjectOwner, payload \in TaskPayloads :
          Len(tasks) < MaxTasks /\ Quiet(create_task(u, p, payload))
    \/ \E u \in Users, p \in DOMAIN ProjectOwner, t \in 1..MaxTasks, payload \in TaskPayloads :
          Quiet(update_task(u, p, t, payload))
    \/ \E u \in Users, p \in DOMAIN ProjectOwner, t \in 1..MaxTasks : Quiet(add_subtask(u, p, t))
    \/ \E u \in Users, p \in DOMAIN ProjectOwner, t \in 1..MaxTasks : Quiet(add_comment(u, p, t))
    \/ Quiet(Tick)

Spec == Init /\ [][Next]_vars

----------------------------------------------------------------------------
(* The arguments of calculate_ai_score a stored row stands for. *)
StoredInputs(task) ==
    [priority |-> task.priority, status |-> task.status, due_date |-> task.due_date,
     estimated_hours |-> task.estimated_hours, has_description |-> task.description # "",
     subtask_count |-> Len(task.subtasks), comment_count |-> Len(task.comments)]

(* C6: after any series of create_task, update_task, add_subtask and        *)
(* add_comment requests, the stored ai_score of every task is               *)
(* calculate_ai_score of its stored priority, status, due date, estimated   *)
(* hours, description presence and numbers of subtasks and comments, as of  *)
(* the instant of the latest of those requests on it.                       *)
C6_StoredScoreCurrent ==
    \A id \in DOMAIN tasks :
        tasks[id].ai_score = StatedScore(StoredInputs(tasks[id]), last_request[id])

(* A task in review with a deadline, a subtask and a comment, last written  *)
(* after the clock has advanced, with a positive score.                     *)
C6_Witness ==
    \E id \in DOMAIN tasks :
        /\ tasks[id].status = "review" /\ tasks[id].due_date # {}
        /\ Len(tasks[id].subtasks) > 0 /\ Len(tasks[id].comments) > 0
        /\ last_request[id] > 0
        /\ tasks[id].ai_score > 0

----------------------------------------------------------------------------
(* C7: for non-negative arguments the call raises nothing and returns a     *)
(* value in [0, 100], also when completed or overdue exceed total.          *)
C7_ProdTotalAndBounded ==
    \A r \in prod_out : ~r.raised /\ 0 <= r.value /\ r.value <= Tenths(100)

(* A call with both counts above total_tasks, which returned 100.0. *)
C7_Witness ==
    /\ prod_in.total_tasks > 0
    /\ prod_in.completed_tasks > prod_in.total_tasks
    /\ prod_in.overdue_tasks > prod_in.total_tasks
    /\ \E r \in prod_out : r.value = Tenths(100)

(* The stated formula, (completed/total * 0.8 - overdue/total * 0.3         *)
(* + max(0, 1 - avgDays/30) * 0.2) * 100, over the denominator 30 * total.  *)
StatedProdDen(in) == 30 * in.total_tasks

StatedProdNum(in) ==
    2400 * in.completed_tasks - 900 * in.overdue_tasks
    + 20 * in.total_tasks
         * (IF in.avg_completion_time_days < 30 THEN 30 - in.avg_completion_time_days ELSE 0)

Abs(x) == IF x < 0 THEN 0 - x ELSE x

(* C8: for total_tasks > 0 the value is the stated formula clamped to       *)
(* [0, 100] and rounded to the nearest tenth, and every avgDays >= 30       *)
(* gives the value of avgDays = 30.                                         *)
C8_ProdFormula ==
    \A r \in prod_out :
        prod_in.total_tasks > 0 =>
            LET den == StatedProdDen(prod_in)
                num == StatedProdNum(prod_in)
                clamped == IF num < 0 THEN 0 ELSE IF num > 100 * den THEN 100 * den ELSE num
            IN  /\ ~r.raised
                /\ 2 * Abs(Tenths(clamped) - r.value * den) <= den
                /\ prod_in.avg_completion_time_days >= 30 =>
                       r = Productivity([prod_in EXCEPT !.avg_completion_time_days = 30])

(* A call with avgDays above 30 whose value needed rounding: 1 of 3 tasks   *)
(* completed gives 26.666..., returned as 26.7.                             *)
C8_Witness ==
    /\ prod_in.total_tasks = 3 /\ prod_in.completed_tasks = 1 /\ prod_in.overdue_tasks = 0
    /\ prod_in.avg_completion_time_days > 30
    /\ \E r \in prod_out : r.value = 267

(* C9: with total_tasks = 0 the call returns exactly 0.0 and divides by     *)
(* nothing, whatever the other three arguments are.                         *)
C9_ZeroTasks ==
    prod_in.total_tasks = 0 =>
        \A r \in prod_out : ~r.raised /\ r.value = 0 /\ r.divisors = {}

(* A call with no tasks but non-zero counts and average. *)
C9_Witness ==
    /\ prod_in.total_tasks = 0 /\ prod_in.completed_tasks > 0 /\ prod_in.overdue_tasks > 0
    /\ prod_in.avg_completion_time_days > 0
    /\ prod_out # {}

----------------------------------------------------------------------------
(* ai_engine.get_ai_suggestion: sorted(tasks_data, key=..., reverse=True).  *)
(* An entry of tasks_data is a dict; pos is where the caller put it, and     *)
(* ai_score is {} when the dict has no such key.                             *)

(* t.get("ai_score", 0) *)
SortKey(t) == IF t.ai_score = {} THEN 0 ELSE CHOOSE x \in t.ai_score : TRUE

(* One entry taken into a list already in order, the way a stable sort with *)
(* reverse=True places it: behind every entry whose key is not smaller.     *)
InsertStable_BeforeTies(done, t) ==
    LET k == Cardinality({i \in 1..Len(done) : SortKey(done[i]) > SortKey(t)})
    IN  SubSeq(done, 1, k) \o <<t>> \o SubSeq(done, k + 1, Len(done))

InsertStable(done, t) ==
    LET k == Cardinality({i \in 1..Len(done) : SortKey(done[i]) >= SortKey(t)})
    IN  SubSeq(done, 1, k) \o <<t>> \o SubSeq(done, k + 1, Len(done))

RECURSIVE get_ai_suggestion(_)
get_ai_suggestion(tasks_data) ==
    IF tasks_data = <<>> THEN <<>>
    ELSE InsertStable(get_ai_suggestion(SubSeq(tasks_data, 1, Len(tasks_data) - 1)),
                      tasks_data[Len(tasks_data)])

(* The ai_score entries of the lists tried: none, 0, 50.0, 80.0, 90.0. *)
ListedScores == {{}, {0}, {Tenths(50)}, {Tenths(80)}, {Tenths(90)}}

SuggestionInputs ==
    UNION { [1..n -> ListedScores] : n \in 0..MaxListed }

InitSuggest ==
    /\ now = 0
    /\ score_in = Idle /\ score_out = {}
    /\ prod_in = Idle /\ prod_out = {}
    /\ tasks = <<>> /\ last_request = <<>>
    /\ \E scores \in SuggestionInputs :
          sugg_in = [i \in DOMAIN scores |-> [pos |-> i, ai_score |-> scores[i]]]
    /\ sugg_out = {}
    /\ reply = Idle /\ sessions = <<>> /\ active = << >> /\ handlers = << >>

(* The call: sorted() builds a new list and leaves tasks_data alone. *)
SuggestCall ==
    /\ sugg_out = {}
    /\ sugg_out' = {get_ai_suggestion(sugg_in)}
    /\ UNCHANGED <<core, sugg_in, reply, sessions, active, handlers>>

NextSuggest == SuggestCall

SpecSuggest == InitSuggest /\ [][NextSuggest]_vars

(* C11: the list get_ai_suggestion returns holds exactly the entries of its *)
(* input, in non-increasing order of score, entries of equal score in the   *)
(* order the input had them; and the input list is as the caller built it.  *)
C11_StableDescending ==
    \A out \in sugg_out :
        /\ Len(out) = Len(sugg_in)
        /\ \A i \in DOMAIN sugg_in : \E j \in DOMAIN out : out[j] = sugg_in[i]
        /\ \A j, k \in DOMAIN out :
              j < k => \/ SortKey(out[j]) > SortKey(out[k])
                       \/ SortKey(out[j]) = SortKey(out[k]) /\ out[j].pos < out[k].pos
        /\ \A i \in DOMAIN sugg_in : sugg_in[i].pos = i

(* The scores 50, 80, 50, 90 came back as 90, 80, the first 50, the second. *)
C11_Witness ==
    /\ Len(sugg_in) = 4
    /\ [i \in 1..4 |-> sugg_in[i].ai_score]
           = <<{Tenths(50)}, {Tenths(80)}, {Tenths(50)}, {Tenths(90)}>>
    /\ \E out \in sugg_out : [j \in 1..4 |-> out[j].pos] = <<4, 2, 1, 3>>

----------------------------------------------------------------------------
(* The priorities and statuses the two tables of ai_engine.py list. *)
ListedPriorities == {"low", "medium", "high", "critical"}
ListedStatuses == {"todo", "in_progress", "review", "done"}

(* C12: a call with a priority or a status the tables do not list returns a *)
(* value all the same: an unlisted priority counts as medium, an unlisted   *)
(* status as todo, in the sum and so in the value returned.                 *)
C12_UnlistedDefaults ==
    \A v \in score_out :
        LET as_medium == [score_in EXCEPT !.priority = "medium"]
            as_todo == [score_in EXCEPT !.status = "todo"]
        IN  /\ score_in.priority \notin ListedPriorities =>
                /\ Sum(score_in, now) = Sum(as_medium, now)
                /\ v = Score(as_medium, now)
            /\ score_in.status \notin ListedStatuses =>
                /\ Sum(score_in, now) = Sum(as_todo, now)
                /\ v = Score(as_todo, now)

(* A call with both unlisted and nothing else to add has returned 30.0. *)
C12_Witness ==
    /\ score_in.priority \notin ListedPriorities
    /\ score_in.status \notin ListedStatuses
    /\ score_in.due_date = {} /\ score_in.estimated_hours = 0
    /\ ~score_in.has_description
    /\ score_in.subtask_count = 0 /\ score_in.comment_count = 0
    /\ score_out = {Tenths(30)}

----------------------------------------------------------------------------
(* calculate_ai_score called again and again on the same arguments while    *)
(* the clock moves on: line 26 reads the clock anew in every call.          *)

(* The instants the clock is read at, around the brackets of a task due at  *)
(* 0 or a day later; the run starts before all of them.                     *)
ClockInstants ==
    {0 - Days(14) - 1, 0 - Days(14), 0 - Days(7) - 1, 0 - Days(7), 0 - Days(3),
     0 - Days(1), -1, 0, 1, Days(1), Days(1) + 1}

ClockInputs ==
    [priority : Priorities, status : Statuses,
     due_date : {{}, {0}, {Days(1)}},
     estimated_hours : {0, 81}, has_description : BOOLEAN,
     subtask_count : {0, MaxSubtasks}, comment_count : {0}]

InitClock ==
    /\ now = 0 - Days(15)
    /\ score_in \in ClockInputs
    /\ score_out = {}
    /\ prod_in = Idle /\ prod_out = {}
    /\ tasks = <<>> /\ last_request = <<>>
    /\ OthersIdle

(* Time passes, and the same call is made at the later instant. *)
Rescore ==
    \E at \in ClockInstants :
        /\ at > now
        /\ now' = at
        /\ score_out' = {Score(score_in, at)}
        /\ UNCHANGED <<score_in, prod_in, prod_out, tasks, last_request, others>>

NextClock == Rescore

SpecClock == InitClock /\ [][NextClock]_vars

(* C13: with the arguments fixed and a due date among them, a call made at  *)
(* a later instant never returns less than a call made at an earlier one.   *)
C13_NeverDecreases ==
    [][score_in.due_date # {} => \A v \in score_out, w \in score_out' : w >= v]_vars

(* A medium todo task due at 0, scored one minute late: 30 + 40. *)
C13_Witness ==
    /\ score_in.due_date = {0} /\ now = 1
    /\ score_in.priority = "medium" /\ score_in.status = "todo"
    /\ score_in.estimated_hours = 0 /\ ~score_in.has_description
    /\ score_in.subtask_count = 0
    /\ score_out = {Tenths(30 + 40)}

----------------------------------------------------------------------------
(* routers/analytics.py: get_analytics over the tasks of the caller's       *)
(* projects. The breakdowns, the weekly series and the activity feed of the *)
(* answer, which feed nothing else, are left out.                           *)

(* str() of a member of a class X(str, enum.Enum): "X.member", not the      *)
(* member's value.                                                          *)
EnumStr(class, member) == class \o "." \o member

(* Line 42: t.due_date < now, for a due date that is set. *)
DueBefore(task, at) == \E d \in task.due_date : d < at

(* Lines 15-125 *)
get_analytics(current_user) ==
    LET project_ids == {p \in DOMAIN ProjectOwner : ProjectOwner[p] = current_user}
        all_tasks == {id \in DOMAIN tasks : tasks[id].project_id \in project_ids}
        completed == {id \in all_tasks : EnumStr("StatusEnum", tasks[id].status) = "done"}
        in_progress ==
            {id \in all_tasks : EnumStr("StatusEnum", tasks[id].status) = "in_progress"}
        overdue ==
            {id \in all_tasks :
                /\ tasks[id].due_date # {}
                /\ EnumStr("StatusEnum", tasks[id].status) # "done"
                /\ DueBefore(tasks[id], now)}
        productivity ==
            generate_productivity_score(Cardinality(all_tasks), Cardinality(completed),
                                        Cardinality(overdue), 7)
    IN  /\ reply' = [user |-> current_user,
                     total_tasks |-> Cardinality(all_tasks),
                     completed_tasks |-> Cardinality(completed),
                     in_progress_tasks |-> Cardinality(in_progress),
                     overdue_tasks |-> Cardinality(overdue),
                     productivity_score |-> productivity]
        /\ UNCHANGED <<core, sugg_in, sugg_out, sessions, active, handlers>>

(* The bodies of the requests that fill the table a dashboard is asked for. *)
AnalyticsPayloads ==
    { [NoFields EXCEPT !.status = {st}, !.due_date = due] :
          st \in {"todo", "in_progress", "done"}, due \in {{}, {Hours(12)}} }

NextAnalytics ==
    \/ \E u \in Users, p \in DOMAIN ProjectOwner, payload \in AnalyticsPayloads :
          Len(tasks) < MaxTasks /\ Quiet(create_task(u, p, payload))
    \/ \E u \in Users, p \in DOMAIN ProjectOwner, t \in 1..MaxTasks, payload \in AnalyticsPayloads :
          Quiet(update_task(u, p, t, payload))
    \/ Quiet(Tick)
    \/ \E u \in Users : get_analytics(u)

SpecAnalytics == Init /\ [][NextAnalytics]_vars

(* The tasks of the projects a user owns. *)
TasksOf(user) == {id \in DOMAIN tasks : ProjectOwner[tasks[id].project_id] = user}

(* C15: the answer of get_analytics counts as completed exactly the         *)
(* caller's tasks whose status is done and as overdue exactly those with a  *)
(* due date before now whose status is not done, so the two counts together *)
(* do not exceed total_tasks.                                               *)
C15_CompletedAndOverdue ==
    [][(reply' # reply /\ "overdue_tasks" \in DOMAIN reply') =>
          LET mine == TasksOf(reply'.user)
              done == {id \in mine : tasks[id].status = "done"}
              late == {id \in mine : tasks[id].status # "done" /\ DueBefore(tasks[id], now)}
          IN  /\ reply'.completed_tasks = Cardinality(done)
              /\ reply'.overdue_tasks = Cardinality(late)
              /\ reply'.completed_tasks + reply'.overdue_tasks <= reply'.total_tasks]_vars

----------------------------------------------------------------------------
(* routers/tasks.py, list_tasks. reply holds the latest request that was    *)
(* answered and the answer: the status code and the ids of the rows sent.   *)

(* list.sort(key=...): a stable sort. before holds the pairs <<a, b>> with  *)
(* a's key sorting before b's; entries neither of which sorts before the    *)
(* other keep their order.                                                  *)
StableSort(list, before) ==
    LET n == Len(list)
        ahead(i) == {j \in 1..n : \/ <<list[j], list[i]>> \in before
                                  \/ <<list[i], list[j]>> \notin before /\ j < i}
    IN  [r \in 1..n |-> list[CHOOSE i \in 1..n : Cardinality(ahead(i)) = r - 1]]

(* The orders a query without ORDER BY may hand the ids of a set back in. *)
Fetched(ids) ==
    {q \in [1..Cardinality(ids) -> ids] : \A i, j \in DOMAIN q : i # j => q[i] # q[j]}

(* created_at is the server's now() at the insert, which the table of the   *)
(* model does not keep: instants that do not decrease with the id.          *)
InsertStamps ==
    {c \in [DOMAIN tasks -> 1..Len(tasks)] : \A i, j \in DOMAIN c : i <= j => c[i] <= c[j]}

(* key=lambda t: t.ai_score, reverse=True, with the reverse left out *)
ByScore_Ascending(a, b) == tasks[a].ai_score < tasks[b].ai_score

(* key=lambda t: t.ai_score, reverse=True *)
ByScore(a, b) == tasks[a].ai_score > tasks[b].ai_score

(* key=lambda t: (t.due_date is None, t.due_date) *)
ByDueDate(a, b) ==
    \/ tasks[a].due_date # {} /\ tasks[b].due_date = {}
    \/ \E da \in tasks[a].due_date, db \in tasks[b].due_date : da < db

(* Lines 39-67. status and priority are {} when the query leaves them out. *)
list_tasks(current_user, project_id, status, priority, sort_by) ==
    LET request == [op |-> "list_tasks", user |-> current_user, project_id |-> project_id,
                    status |-> status, priority |-> priority, sort_by |-> sort_by]
        matching ==
            {id \in DOMAIN tasks :
                /\ tasks[id].project_id = project_id
                /\ status # {} => tasks[id].status \in status
                /\ priority # {} => tasks[id].priority \in priority}
    IN  /\ IF ~_get_project_or_404(project_id, current_user)
           THEN reply' = [request |-> request, status_code |-> 404, ids |-> <<>>]
           ELSE \E q \in Fetched(matching) :
                   IF sort_by = "created_at"
                   THEN \E created_at \in InsertStamps :
                           reply' = [request |-> request, status_code |-> 200,
                                     ids |-> StableSort(q, {<<a, b>> \in matching \X matching :
                                                               created_at[a] > created_at[b]})]
                   ELSE IF sort_by = "due_date"
                   THEN reply' = [request |-> request, status_code |-> 200,
                                  ids |-> StableSort(q, {<<a, b>> \in matching \X matching :
                                                            ByDueDate(a, b)})]
                   ELSE reply' = [request |-> request, status_code |-> 200,
                                  ids |-> StableSort(q, {<<a, b>> \in matching \X matching :
                                                            ByScore(a, b)})]
        /\ UNCHANGED <<core, sugg_in, sugg_out, sessions, active, handlers>>

(* The answer to create_task: 201 with the new row, or 404. *)
Created(current_user, project_id, payload) ==
    /\ create_task(current_user, project_id, payload)
    /\ reply' = [request |-> [op |-> "create_task", user |-> current_user,
                              project_id |-> project_id],
                 status_code |-> IF _get_project_or_404(project_id, current_user)
                                 THEN 201 ELSE 404,
                 ids |-> IF _get_project_or_404(project_id, current_user)
                         THEN <<Len(tasks) + 1>> ELSE <<>>]
    /\ UNCHANGED <<sugg_in, sugg_out, sessions, active, handlers>>

(* The bodies that fill the table: scores 30, 60 and 0. *)
ListPayloads ==
    { NoFields,
      [NoFields EXCEPT !.priority = {"high"}, !.due_date = {Hours(12)}],
      [NoFields EXCEPT !.status = {"done"}] }

(* The filters of the list requests: none, one status, one priority. *)
ListFilters ==
    { [status |-> {}, priority |-> {}],
      [status |-> {"todo"}, priority |-> {}],
      [status |-> {}, priority |-> {"medium"}] }

NextList ==
    \/ \E u \in Users, payload \in ListPayloads :
          Len(tasks) < MaxProjectTasks /\ Created(u, u, payload)
    \/ \E u \in Users, p \in DOMAIN ProjectOwner, f \in ListFilters,
          sort_by \in {"ai_score", "created_at", "due_date", "title"} :
          list_tasks(u, p, f.status, f.priority, sort_by)

SpecList == Init /\ [][NextList]_vars

(* C16: a list_tasks request for a project of the caller whose sort_by is   *)
(* neither created_at nor due_date is answered with exactly the project's   *)
(* tasks that pass the status and priority filters, each once, in           *)
(* non-increasing order of stored ai_score.                                 *)
C16_DefaultOrder ==
    [][(reply' # reply /\ "request" \in DOMAIN reply') =>
          LET r == reply'.request
              ids == reply'.ids
          IN  (/\ r.op = "list_tasks" /\ reply'.status_code = 200
               /\ r.sort_by \notin {"created_at", "due_date"}) =>
                  /\ {ids[i] : i \in DOMAIN ids}
                        = {id \in DOMAIN tasks :
                              /\ tasks[id].project_id = r.project_id
                              /\ r.status # {} => tasks[id].status \in r.status
                              /\ r.priority # {} => tasks[id].priority \in r.priority}
                  /\ \A i, j \in DOMAIN ids :
                        i < j => ids[i] # ids[j] /\ tasks[ids[i]].ai_score >= tasks[ids[j]].ai_score]_vars

(* Two tasks of project 1 scored 30 and 90, listed as 90, 30. *)
C16_Witness ==
    /\ Len(tasks) = 2
    /\ \A id \in 1..2 : tasks[id].project_id = 1
    /\ [id \in 1..2 |-> tasks[id].ai_score] = <<Tenths(30), Tenths(90)>>
    /\ "request" \in DOMAIN reply
    /\ reply.request.op = "list_tasks" /\ reply.request.sort_by = "ai_score"
    /\ reply.request.status = {} /\ reply.request.priority = {}
    /\ reply.status_code = 200 /\ reply.ids = <<2, 1>>

----------------------------------------------------------------------------
(* routers/tasks.py, the requests on one task and what each answers. A      *)
(* subtask id is the pair of its task and its place among that task's       *)
(* subtasks, which names a row of the subtasks table as its integer id does. *)

(* A row db.delete removed, with its subtasks and comments: its id is not   *)
(* given to another row, and it belongs to no project.                      *)
Gone == [project_id |-> 0, subtasks |-> <<>>, comments |-> <<>>]

(* The request and its answer: the ids are the tasks read or written. *)
Answer(op, current_user, project_id, task_id, found, code) ==
    [request |-> [op |-> op, user |-> current_user, project_id |-> project_id,
                  task_id |-> task_id],
     status_code |-> IF found THEN code ELSE 404,
     ids |-> IF found THEN <<task_id>> ELSE <<>>]

(* Lines 116-119 and the like: the project is the caller's and holds the task. *)
Allowed(current_user, project_id, task_id) ==
    _get_project_or_404(project_id, current_user) /\ TaskFound(project_id, task_id)

NoSocketStep == UNCHANGED <<sugg_in, sugg_out, sessions, active, handlers>>

(* Lines 108-122 *)
get_task(current_user, project_id, task_id) ==
    /\ reply' = Answer("get_task", current_user, project_id, task_id,
                       Allowed(current_user, project_id, task_id), 200)
    /\ UNCHANGED core /\ NoSocketStep

(* Lines 125-157, with the answer *)
Updated(current_user, project_id, task_id, payload) ==
    /\ update_task(current_user, project_id, task_id, payload)
    /\ reply' = Answer("update_task", current_user, project_id, task_id,
                       Allowed(current_user, project_id, task_id), 200)
    /\ NoSocketStep

(* Lines 160-175 *)
delete_task(current_user, project_id, task_id) ==
    /\ IF ~Allowed(current_user, project_id, task_id) THEN NotFound
       ELSE /\ tasks' = [tasks EXCEPT ![task_id] = Gone]
            /\ UNCHANGED <<now, score_in, score_out, prod_in, prod_out, last_request>>
    /\ reply' = Answer("delete_task", current_user, project_id, task_id,
                       Allowed(current_user, project_id, task_id), 204)
    /\ NoSocketStep

(* Lines 179-200, with the answer *)
SubtaskAdded(current_user, project_id, task_id) ==
    /\ add_subtask(current_user, project_id, task_id)
    /\ reply' = Answer("add_subtask", current_user, project_id, task_id,
                       Allowed(current_user, project_id, task_id), 201)
    /\ NoSocketStep

(* Lines 212-215: the subtask of this id whose task_id is the one of the    *)
(* path. The project of the path plays no part in the lookup.               *)
SubtaskFound(task_id, subtask_id) ==
    /\ subtask_id[1] = task_id
    /\ task_id \in DOMAIN tasks
    /\ subtask_id[2] \in DOMAIN tasks[task_id].subtasks

(* Lines 203-221 *)
toggle_subtask(current_user, project_id, task_id, subtask_id) ==
    LET found == _get_project_or_404(project_id, current_user)
                 /\ SubtaskFound(task_id, subtask_id)
    IN  /\ IF ~found THEN NotFound
           ELSE /\ tasks' = [tasks EXCEPT ![task_id].subtasks[subtask_id[2]].is_done = ~@]
                /\ UNCHANGED <<now, score_in, score_out, prod_in, prod_out, last_request>>
        /\ reply' = Answer("toggle_subtask", current_user, project_id, task_id, found, 200)
        /\ NoSocketStep

(* Lines 225-250, with the answer *)
CommentAdded(current_user, project_id, task_id) ==
    /\ add_comment(current_user, project_id, task_id)
    /\ reply' = Answer("add_comment", current_user, project_id, task_id,
                       Allowed(current_user, project_id, task_id), 201)
    /\ NoSocketStep

(* Lines 254-278: the rows of the project, written out as the query hands   *)
(* them over.                                                               *)
export_tasks_csv(current_user, project_id) ==
    LET request == [op |-> "export_tasks_csv", user |-> current_user,
                    project_id |-> project_id]
    IN  /\ IF ~_get_project_or_404(project_id, current_user)
           THEN reply' = [request |-> request, status_code |-> 404, ids |-> <<>>]
           ELSE \E q \in Fetched({id \in DOMAIN tasks : tasks[id].project_id = project_id}) :
                   reply' = [request |-> request, status_code |-> 200, ids |-> q]
        /\ UNCHANGED core /\ NoSocketStep

AccessPayloads == {NoFields, [NoFields EXCEPT !.status = {"review"}]}

SubtaskIds == (1..MaxTasks) \X (1..MaxRows)

NextAccess ==
    \/ \E u \in Users, p \in DOMAIN ProjectOwner, payload \in AccessPayloads :
          Len(tasks) < MaxTasks /\ Created(u, p, payload)
    \/ \E u \in Users, p \in DOMAIN ProjectOwner, t \in 1..MaxTasks : get_task(u, p, t)
    \/ \E u \in Users, p \in DOMAIN ProjectOwner, t \in 1..MaxTasks, payload \in AccessPayloads :
          Updated(u, p, t, payload)
    \/ \E u \in Users, p \in DOMAIN ProjectOwner, t \in 1..MaxTasks : delete_task(u, p, t)
    \/ \E u \in Users, p \in DOMAIN ProjectOwner, t \in 1..MaxTasks : SubtaskAdded(u, p, t)
    \/ \E u \in Users, p \in DOMAIN ProjectOwner, t \in 1..MaxTasks, sid \in SubtaskIds :
          toggle_subtask(u, p, t, sid)
    \/ \E u \in Users, p \in DOMAIN ProjectOwner, t \in 1..MaxTasks : CommentAdded(u, p, t)
    \/ \E u \in Users, p \in DOMAIN ProjectOwner :
          list_tasks(u, p, {}, {}, "ai_score")
    \/ \E u \in Users, p \in DOMAIN ProjectOwner : export_tasks_csv(u, p)

SpecAccess == Init /\ [][NextAccess]_vars

(* The row belongs to a project the user owns. *)
Owns(user, row) ==
    row.project_id \in DOMAIN ProjectOwner /\ ProjectOwner[row.project_id] = user

(* C17: a request on a task reads and writes only rows of projects the      *)
(* caller owns, and a request whose project is not the caller's, or whose   *)
(* task is not in that project, is answered 404 and writes nothing.         *)
C17_OwnTasksOnly ==
    [][LET r == reply'.request
       IN  /\ \A id \in DOMAIN tasks : tasks'[id] # tasks[id] => Owns(r.user, tasks[id])
           /\ \A i \in DOMAIN reply'.ids :
                 LET id == reply'.ids[i]
                 IN  Owns(r.user, IF id \in DOMAIN tasks THEN tasks[id] ELSE tasks'[id])
           /\ (\/ ~_get_project_or_404(r.project_id, r.user)
               \/ "task_id" \in DOMAIN r /\ ~TaskFound(r.project_id, r.task_id)) =>
                 reply'.status_code = 404 /\ tasks' = tasks]_vars

----------------------------------------------------------------------------
(* add_subtask and add_comment served concurrently: each request runs in a  *)
(* thread and a database session of its own, and what one session commits   *)
(* the next statement of any other session reads. A session stands at       *)
(*   "insert"  lines 194-195, 243-244: db.add(row); db.commit()             *)
(*   "recalc"  lines 197, 247: _recalc_score(task), which loads the expired *)
(*             task, its subtasks and its comments and sets task.ai_score   *)
(*   "commit"  lines 198, 248: db.commit(), which writes task.ai_score if   *)
(*             it differs from the value loaded                             *)
(*   "done"    the answer is sent                                           *)

(* Lines 187-192, 233-238: the request is let in and its session opened. *)
Begin(op, current_user, project_id, task_id) ==
    /\ Len(sessions) < MaxSessions
    /\ IF ~Allowed(current_user, project_id, task_id) THEN UNCHANGED sessions
       ELSE sessions' = Append(sessions, [op |-> op, user |-> current_user,
                                          task_id |-> task_id, pc |-> "insert",
                                          loaded |-> {}, ai_score |-> {}])
    /\ UNCHANGED <<core, sugg_in, sugg_out, reply, active, handlers>>

(* Lines 193-196, 239-246: the new row is committed. *)
InsertCommit(i) ==
    LET s == sessions[i]
    IN  /\ s.pc = "insert"
        /\ tasks' = [tasks EXCEPT ![s.task_id] =
                        IF s.op = "add_subtask"
                        THEN [@ EXCEPT !.subtasks = Append(@, [is_done |-> FALSE])]
                        ELSE [@ EXCEPT !.comments = Append(@, [author_id |-> s.user])]]
        /\ sessions' = [sessions EXCEPT ![i].pc = "recalc"]
        /\ UNCHANGED <<now, score_in, score_out, prod_in, prod_out, last_request,
                       sugg_in, sugg_out, reply, active, handlers>>

(* Lines 197, 247: the score of the row as this session reads it now, kept  *)
(* in the session until its commit.                                         *)
Recalculate(i) ==
    LET s == sessions[i]
    IN  /\ s.pc = "recalc"
        /\ sessions' = [sessions EXCEPT ![i].pc = "commit",
                                        ![i].loaded = {tasks[s.task_id].ai_score},
                                        ![i].ai_score = {_recalc_score(tasks[s.task_id]).ai_score}]
        /\ last_request' = [last_request EXCEPT ![s.task_id] = now]
        /\ UNCHANGED <<now, score_in, score_out, prod_in, prod_out, tasks,
                       sugg_in, sugg_out, reply, active, handlers>>

(* Lines 198, 248: the unit of work writes the attribute it saw change. *)
CommitScore(i) ==
    LET s == sessions[i]
    IN  /\ s.pc = "commit"
        /\ tasks' = IF s.ai_score = s.loaded THEN tasks
                    ELSE [tasks EXCEPT ![s.task_id].ai_score = CHOOSE x \in s.ai_score : TRUE]
        /\ sessions' = [sessions EXCEPT ![i].pc = "done"]
        /\ UNCHANGED <<now, score_in, score_out, prod_in, prod_out, last_request,
                       sugg_in, sugg_out, reply, active, handlers>>

NextSessions ==
    \/ \E u \in Users, p \in DOMAIN ProjectOwner, payload \in TaskPayloads :
          Len(tasks) < MaxTasks /\ Quiet(create_task(u, p, payload))
    \/ \E op \in {"add_subtask", "add_comment"}, u \in Users, p \in DOMAIN ProjectOwner,
          t \in 1..MaxTasks : Begin(op, u, p, t)
    \/ \E i \in DOMAIN sessions : InsertCommit(i)
    \/ \E i \in DOMAIN sessions : Recalculate(i)
    \/ \E i \in DOMAIN sessions : CommitScore(i)

SpecSessions == Init /\ [][NextSessions]_vars

(* C18: once every add_subtask and add_comment request in progress on a     *)
(* task has completed, the stored ai_score of the task is the score of its  *)
(* fields with the subtasks and comments it then has.                       *)
C18_NoStaleScore ==
    (sessions # <<>> /\ \A i \in DOMAIN sessions : sessions[i].pc = "done") =>
        \A i \in DOMAIN sessions :
            LET task == tasks[sessions[i].task_id]
            IN  task.ai_score = StatedScore(StoredInputs(task), now)

----------------------------------------------------------------------------
(* main.py: ConnectionManager and websocket_endpoint. handlers[ws] is the   *)
(* call of websocket_endpoint for socket ws: the user_id of its path, where *)
(* it stands ("greet" before the first send, "receive" in the loop, "ended" *)
(* once it has returned or raised) and the exception that ended it.         *)

(* The text frames a client sends, and what json.loads makes of each. *)
Frames == {"{\"type\": \"ping\"}", "[1, 2]", "ping"}

json_loads(data) ==
    CASE data = "{\"type\": \"ping\"}" -> [raised |-> "", value |-> "dict"]
      [] data = "[1, 2]" -> [raised |-> "", value |-> "list"]
      [] OTHER -> [raised |-> "JSONDecodeError", value |-> ""]

(* What ws.send_text raises when the client is gone: WebSocketDisconnect or *)
(* a RuntimeError, with the version of the framework.                       *)
SendFailures == {"WebSocketDisconnect", "RuntimeError"}

(* Lines 49-51, after ws.accept() *)
ManagerConnect(ws, user_id) ==
    IF user_id \in DOMAIN active
    THEN [active EXCEPT ![user_id] = Append(@, ws)]
    ELSE [u \in DOMAIN active \cup {user_id} |->
             IF u = user_id THEN <<ws>> ELSE active[u]]

(* Lines 53-55 *)
ManagerDisconnect(ws, user_id) ==
    IF user_id \in DOMAIN active
    THEN [active EXCEPT ![user_id] = SelectSeq(@, LAMBDA c : c # ws)]
    ELSE active

(* Lines 84-86: except WebSocketDisconnect, and nothing else, is handled. *)
Ended(ws, raised) ==
    /\ handlers' = [handlers EXCEPT ![ws].pc = "ended", ![ws].raised = raised]
    /\ active' = IF raised = "WebSocketDisconnect"
                 THEN ManagerDisconnect(ws, handlers[ws].user_id)
                 ELSE active

NoRequestStep == UNCHANGED <<core, sugg_in, sugg_out, reply, sessions>>

(* Lines 73-75: a client connects and the handler starts. *)
Connect(user_id) ==
    LET ws == Len(handlers) + 1
    IN  /\ Len(handlers) < MaxSockets
        /\ active' = ManagerConnect(ws, user_id)
        /\ handlers' = Append(handlers, [user_id |-> user_id, pc |-> "greet", raised |-> ""])
        /\ NoRequestStep

(* Line 77: the greeting is sent, or the send fails. *)
Greet(ws) ==
    /\ handlers[ws].pc = "greet"
    /\ \/ handlers' = [handlers EXCEPT ![ws].pc = "receive"] /\ UNCHANGED active
       \/ \E e \in SendFailures : Ended(ws, e)
    /\ NoRequestStep

(* Lines 79-83: a frame arrives and is parsed, stamped and echoed. *)
Receive(ws, data) ==
    LET payload == json_loads(data)
    IN  /\ handlers[ws].pc = "receive"
        /\ IF payload.raised # "" THEN Ended(ws, payload.raised)
           ELSE IF payload.value # "dict" THEN Ended(ws, "TypeError")
           ELSE \/ UNCHANGED <<active, handlers>>
                \/ \E e \in SendFailures : Ended(ws, e)
        /\ NoRequestStep

(* Line 79: the client goes away and receive_text raises. *)
ClientDisconnect(ws) ==
    /\ handlers[ws].pc = "receive"
    /\ Ended(ws, "WebSocketDisconnect")
    /\ NoRequestStep

(* Lines 57-66: a message for a user; a socket the send fails on, as it     *)
(* does on one whose handler has ended, is dropped.                         *)
broadcast_to_user(user_id) ==
    LET connections == IF user_id \in DOMAIN active THEN active[user_id] ELSE <<>>
        dead == {connections[i] : i \in {j \in DOMAIN connections :
                                           handlers[connections[j]].pc = "ended"}}
    IN  /\ active' = IF user_id \in DOMAIN active
                     THEN [active EXCEPT ![user_id] = SelectSeq(@, LAMBDA c : c \notin dead)]
                     ELSE active
        /\ UNCHANGED handlers
        /\ NoRequestStep

NextSockets ==
    \/ \E u \in Users : Connect(u)
    \/ \E ws \in DOMAIN handlers : Greet(ws)
    \/ \E ws \in DOMAIN handlers, data \in Frames : Receive(ws, data)
    \/ \E ws \in DOMAIN handlers : ClientDisconnect(ws)
    \/ \E u \in Users : broadcast_to_user(u)

SpecSockets == Init /\ [][NextSockets]_vars

(* The sockets in the active list of a user. *)
ActiveOf(user_id) ==
    IF user_id \in DOMAIN active
    THEN {active[user_id][i] : i \in DOMAIN active[user_id]}
    ELSE {}

(* C19: a socket whose handler has ended, for whatever reason, is not in    *)
(* the active list of its user.                                             *)
C19_ActiveOnlyWhileRunning ==
    \A ws \in DOMAIN handlers :
        handlers[ws].pc = "ended" => ws \notin ActiveOf(handlers[ws].user_id)
====
